---- MODULE Spec2Model ----
(***************************************************************************)
(* A model of the QuickBooks financial-reporting tool.                     *)
(*                                                                         *)
(*   Spec    the fetch layer of qb_client.py: MyQBClient._paginate driving *)
(*           MyQBClient._retry_call against a remote entity source.        *)
(*   SpecPL  the P&L engine of data_processor.py:                          *)
(*           DataProcessor.generate_profit_loss_statement.                 *)
(*   SpecBS  DataProcessor.generate_balance_sheet_data.                    *)
(*   SpecCF  the cash flow engine (indirect method).                       *)
(*   SpecMain    main() of main.py, from the fetches to the exports.       *)
(*   SpecCancel  the fetch layer under an external cancellation signal.    *)
(*   SpecRows    ReportGenerator._build_pl_rows of reporting.py, on the    *)
(*               statements the P&L engine returns.                        *)
(***************************************************************************)
EXTENDS Integers, Sequences, FiniteSets, TLC

VARIABLES
    \* ---- fetch layer (qb_client.py) ----
    source_size,   \* number of records the remote source holds
    filters,       \* the caller's filters argument of _paginate
    pc,            \* position of the fetch: "call", "returned", "done", "raised" ("idle": no fetch)
    start,         \* _paginate: start
    all_records,   \* _paginate: all_records
    page,          \* _paginate: page, the value _retry_call returned
    attempt,       \* _retry_call: the loop variable attempt
    calls,         \* outcome of every invocation of func in the current _retry_call
    sleeps,        \* delay of every time.sleep of the current _retry_call
    slept,         \* number of time.sleep calls of the whole fetch
    requests,      \* arguments of every request sent to the source in this fetch
    raised,        \* the exception that left _retry_call and _paginate
    result,        \* the value _paginate returned
    \* ---- P&L engine (data_processor.py) ----
    invoices_or_df,
    bills_or_df,
    revenue_lines,
    expense_lines,
    pl_statement,
    \* ---- balance sheet (data_processor.py) ----
    accounts,      \* the accounts argument of generate_balance_sheet_data
    balance_data,  \* the value generate_balance_sheet_data returned
    \* ---- cash flow engine ----
    cf_input,      \* net income, the three category maps and the beginning cash
    cash_flow,     \* the cash flow statement the engine produced
    \* ---- the run (main.py) ----
    main_pc,       \* position of main() ("idle": no run)
    printed,       \* what the run printed, in order
    exported,      \* the statements the run exported, in order
    uncaught,      \* the exception that left main()
    \* ---- cancellation ----
    cancel_requested, \* an external cancellation signal has been raised
    \* ---- reporting.py ----
    rows           \* the rows _build_pl_rows returned

fetch_vars == <<source_size, filters, pc, start, all_records, page, attempt,
                calls, sleeps, slept, requests, raised, result>>
pl_vars == <<invoices_or_df, bills_or_df, revenue_lines, expense_lines, pl_statement>>
bs_vars == <<accounts, balance_data>>
cf_vars == <<cf_input, cash_flow>>
main_vars == <<main_pc, printed, exported, uncaught>>
vars == <<fetch_vars, pl_vars, bs_vars, cf_vars, main_vars, cancel_requested, rows>>

\* What the actions of one part leave alone
fetch_rest == <<pl_vars, bs_vars, cf_vars, main_vars, cancel_requested, rows>>
pl_rest == <<fetch_vars, bs_vars, cf_vars, main_vars, cancel_requested, rows>>
bs_rest == <<fetch_vars, pl_vars, cf_vars, main_vars, cancel_requested, rows>>
cf_rest == <<fetch_vars, pl_vars, bs_vars, main_vars, cancel_requested, rows>>
main_rest == <<fetch_vars, cf_vars, cancel_requested, rows>>

----------------------------------------------------------------------------
(* Python values *)

\* Python's None, and an attribute the object does not have
None == [tag |-> "None"]
Absent == [tag |-> "absent"]

\* A Python list holding the sequence s
PyList(s) == [tag |-> "list", v |-> s]

\* A Python dict holding the items d, in insertion order
PyDict(d) == [tag |-> "dict", v |-> d]

Min(a, b) == IF a < b THEN a ELSE b

RECURSIVE Pow2(_)
Pow2(n) == IF n = 0 THEN 1 ELSE 2 * Pow2(n - 1)

----------------------------------------------------------------------------
(* qb_client.py *)

MAX_RESULTS_PER_PAGE == 100
MAX_RETRIES == 4
BASE_DELAY == 1

\* Largest source the model fetches from
MaxRecords == 250

\* The sizes fetched: the multiples of half a page, the neighbours of the
\* first page boundary, and the largest size.
SourceSizes ==
    {n \in 0..MaxRecords :
        \/ n % 50 = 0
        \/ n \in {1, MAX_RESULTS_PER_PAGE - 1, MAX_RESULTS_PER_PAGE + 1}
        \/ n = MaxRecords}

\* The filters argument: absent (None), the empty string, a query expression.
FilterValues == {None, [tag |-> "str", v |-> ""],
                 [tag |-> "str", v |-> "TxnDate >= '2025-01-01'"]}

\* Python truthiness of the filters argument (`if filters:`)
FilterTruthy(f) == f.tag = "str" /\ f.v # ""

\* What an invocation of func can raise.  "auth" is AuthorizationException;
\* "server" (server error, rate limit) and "validation" (malformed query) are
\* other QuickbooksExceptions; "network" is an exception that is no
\* QuickbooksException (a connection error raised by the HTTP layer).
ErrorKinds == {"auth", "server", "validation", "network"}
IsAuthorizationException(k) == k = "auth"
IsQuickbooksException(k) == k \in {"auth", "server", "validation"}

\* The records of the source are numbered 1..source_size in the server's order.
Records(n) == [i \in 1..n |-> i]

\* The source's answer to a request: at most max_results records from
\* start_position on.
SourcePage(n, start_position, max_results) ==
    IF start_position > n THEN <<>>
    ELSE SubSeq(Records(n), start_position,
                Min(n, start_position + max_results - 1))

\* The request func sends: entity_class.where(filters, ...) or entity_class.all(...)
Request(f, s) ==
    IF FilterTruthy(f)
    THEN [method |-> "where", filter |-> f,
          start_position |-> s, max_results |-> MAX_RESULTS_PER_PAGE]
    ELSE [method |-> "all", filter |-> None,
          start_position |-> s, max_results |-> MAX_RESULTS_PER_PAGE]

\* Delays are counted in whole time units.  What random.uniform(0, 1) adds
\* to the delay: 0, for a jitter whose sum with 2 ** attempt stays below
\* 2 ** attempt + 1 (the fraction is not counted), or 1, for the largest
\* floats below 1 (1 - 2^-53 and its neighbours), whose floating-point sum
\* with 2 ** attempt rounds to 2 ** attempt + 1.
Jitters == {0, 1}

\* delay = BASE_DELAY * (2 ** attempt) + random.uniform(0, 1)
DelayLinear(a, jitter) == BASE_DELAY * (a + 1) + jitter
DelayAlt(a, jitter) == BASE_DELAY + jitter
Delay(a, jitter) == BASE_DELAY * Pow2(a) + jitter

PLIdle ==
    /\ invoices_or_df = None
    /\ bills_or_df = None
    /\ revenue_lines = <<>>
    /\ expense_lines = <<>>
    /\ pl_statement = None

BSIdle ==
    /\ accounts = None
    /\ balance_data = None

CFIdle ==
    /\ cf_input = None
    /\ cash_flow = None

MainIdle ==
    /\ main_pc = "idle"
    /\ printed = <<>>
    /\ exported = <<>>
    /\ uncaught = None

NoCancel == cancel_requested = FALSE

RowsIdle == rows = None

Init ==
    /\ source_size \in SourceSizes
    /\ filters \in FilterValues
    /\ pc = "call"
    /\ start = 1
    /\ all_records = <<>>
    /\ page = None
    /\ attempt = 0
    /\ calls = <<>>
    /\ sleeps = <<>>
    /\ slept = 0
    /\ requests = <<>>
    /\ raised = None
    /\ result = None
    /\ PLIdle
    /\ BSIdle
    /\ CFIdle
    /\ MainIdle
    /\ NoCancel
    /\ RowsIdle

\* func() is invoked and returns a page: _retry_call returns it.
CallSucceeds ==
    /\ pc = "call"
    /\ requests' = Append(requests, Request(filters, start))
    /\ calls' = Append(calls, "ok")
    /\ page' = PyList(SourcePage(source_size,
                                 Request(filters, start).start_position,
                                 Request(filters, start).max_results))
    /\ pc' = "returned"
    /\ UNCHANGED <<source_size, filters, start, all_records, attempt, sleeps,
                   slept, raised, result, fetch_rest>>

\* The exception leaves _retry_call, and _paginate, which catches nothing.
Raise(k) ==
    /\ raised' = [kind |-> k, call |-> Len(calls) + 1]
    /\ pc' = "raised"
    /\ UNCHANGED <<attempt, sleeps, slept>>

\* except QuickbooksException: raise on the last attempt, else sleep and loop
RetryOrRaiseSwallow(k, jitter) ==
    IF attempt = MAX_RETRIES
    THEN /\ pc' = "returned"
         /\ UNCHANGED <<attempt, sleeps, slept, raised>>
    ELSE /\ sleeps' = Append(sleeps, Delay(attempt, jitter))
         /\ slept' = slept + 1
         /\ attempt' = attempt + 1
         /\ pc' = "call"
         /\ UNCHANGED raised
RetryOrRaiseAlt(k, jitter) ==
    IF attempt = MAX_RETRIES - 1
    THEN Raise(k)
    ELSE /\ sleeps' = Append(sleeps, Delay(attempt, jitter))
         /\ slept' = slept + 1
         /\ attempt' = attempt + 1
         /\ pc' = "call"
         /\ UNCHANGED raised
RetryOrRaise(k, jitter) ==
    IF attempt = MAX_RETRIES
    THEN Raise(k)
    ELSE /\ sleeps' = Append(sleeps, Delay(attempt, jitter))
         /\ slept' = slept + 1
         /\ attempt' = attempt + 1
         /\ raised' = raised
         \* range(MAX_RETRIES + 1) exhausted: the function falls off its end
         /\ pc' = IF attempt + 1 <= MAX_RETRIES THEN "call" ELSE "returned"

\* The except clauses of _retry_call, in their order.
HandleAlt(k, jitter) ==
    IF IsQuickbooksException(k) THEN RetryOrRaise(k, jitter) ELSE Raise(k)
Handle(k, jitter) ==
    IF IsAuthorizationException(k) THEN Raise(k)
    ELSE IF IsQuickbooksException(k) THEN RetryOrRaise(k, jitter)
    ELSE Raise(k)

\* func() is invoked and raises.
CallRaises(k, jitter) ==
    /\ pc = "call"
    /\ requests' = Append(requests, Request(filters, start))
    /\ calls' = Append(calls, k)
    /\ Handle(k, jitter)
    /\ page' = IF pc' = "returned" THEN None ELSE page
    /\ UNCHANGED <<source_size, filters, start, all_records, result, fetch_rest>>

CallRaisesAuthorization ==
    \E k \in {e \in ErrorKinds : IsAuthorizationException(e)} : CallRaises(k, 0)

\* A QuickbooksException that is no AuthorizationException, of any kind at
\* any attempt
CallRaisesQuickbooks ==
    \E k \in {e \in ErrorKinds :
                IsQuickbooksException(e) /\ ~IsAuthorizationException(e)} :
        \E jitter \in Jitters : CallRaises(k, jitter)

CallRaisesOther ==
    \E k \in {e \in ErrorKinds : ~IsQuickbooksException(e)} : CallRaises(k, 0)

\* Python truthiness of the page (`if not page:`): None and [] are falsy
PageTruthy(p) == p.tag = "list" /\ Len(p.v) > 0

\* _paginate, from the return of _retry_call to the next request or the return
NextStartAlt(s) == s + MAX_RESULTS_PER_PAGE - 1
NextStart(s) == s + MAX_RESULTS_PER_PAGE

MorePagesAlt(p) == Len(p) > 0
MorePages(p) == ~(Len(p) < MAX_RESULTS_PER_PAGE)

\* for attempt in range(MAX_RETRIES + 1): every _retry_call counts from 0
FreshAttemptAlt(a) == a
FreshAttempt(a) == 0

ExtendAlt(records, p) == p
Extend(records, p) == records \o p

ProcessPage ==
    /\ pc = "returned"
    /\ IF ~PageTruthy(page)
       THEN /\ pc' = "done"
            /\ result' = PyList(all_records)
            /\ UNCHANGED <<all_records, start, attempt, calls, sleeps>>
       ELSE /\ all_records' = Extend(all_records, page.v)
            /\ IF ~MorePages(page.v)
               THEN /\ pc' = "done"
                    /\ result' = PyList(all_records')
                    /\ UNCHANGED <<start, attempt, calls, sleeps>>
               ELSE /\ start' = NextStart(start)
                    /\ pc' = "call"
                    /\ attempt' = FreshAttempt(attempt)
                    /\ calls' = <<>>
                    /\ sleeps' = <<>>
                    /\ UNCHANGED result
    /\ UNCHANGED <<source_size, filters, page, slept, requests, raised, fetch_rest>>

Next ==
    \/ CallSucceeds
    \/ CallRaisesAuthorization
    \/ CallRaisesQuickbooks
    \/ CallRaisesOther
    \/ ProcessPage

Spec == Init /\ [][Next]_vars

\* The fetch is synchronous code: it keeps running until it returns or raises.
FairSpec == Spec /\ WF_vars(Next)

----------------------------------------------------------------------------
(* qb_client.py under an external cancellation signal.  The signal is      *)
(* raised from outside while a fetch is in progress; _retry_call and       *)
(* _paginate have no parameter, attribute or check that reads it.          *)

RequestCancel ==
    /\ pc \in {"call", "returned"}
    /\ requests # <<>>
    /\ cancel_requested = FALSE
    /\ cancel_requested' = TRUE
    /\ UNCHANGED <<fetch_vars, pl_vars, bs_vars, cf_vars, main_vars, rows>>

NextCancel ==
    \/ Next
    \/ RequestCancel

SpecCancel == Init /\ [][NextCancel]_vars

----------------------------------------------------------------------------
(* data_processor.py *)

Str(x) == [tag |-> "str", v |-> x]
Num(n) == [tag |-> "num", v |-> n]
DataFrame(total_amt) == [tag |-> "DataFrame", TotalAmt |-> total_amt]

\* An exception leaving the call
Raised(exc) == [tag |-> "raised", exc |-> exc]

\* getattr(obj, attr, default), given the attribute's value or Absent
GetAttr(value, default) == IF value = Absent THEN default ELSE value

\* Python truthiness of an attribute value that is None or an object
Truthy(x) == x.tag = "obj"

\* A dict, as the sequence of its items in insertion order
DictKeys(d) == {d[i].key : i \in 1..Len(d)}

DictGet(d, k, default) ==
    IF k \in DictKeys(d)
    THEN d[CHOOSE i \in 1..Len(d) : d[i].key = k].value
    ELSE default

DictSet(d, k, x) ==
    IF k \in DictKeys(d)
    THEN [i \in 1..Len(d) |-> IF d[i].key = k THEN [key |-> k, value |-> x] ELSE d[i]]
    ELSE Append(d, [key |-> k, value |-> x])

\* ---- Python floats (IEEE 754 binary64) ----
\* A float is written as float.hex() writes it: 0.1 is 0x1.999999999999ap-4,
\* Float(FALSE, <<1, 9, 9, 9, 9, 9, 9, 9, 9, 9, 9, 9, 9, 10>>, -4), and 0.0
\* is 0x0.0p+0.  A Python int is written as the float it converts to.  The
\* amounts of the model are far from the subnormal and the infinite range.
Float(neg, hex, exp) == [tag |-> "float", neg |-> neg, hex |-> hex, exp |-> exp]

\* The significand of a float: 53 bits, shown as 14 hex digits
MantissaBits == 53
HexDigits == 14

Zeros(n) == [i \in 1..n |-> 0]
Reverse(s) == [i \in 1..Len(s) |-> s[Len(s) + 1 - i]]
Abs(n) == IF n < 0 THEN -n ELSE n

FloatZero == Float(FALSE, Zeros(HexDigits), 0)

\* Natural numbers as hex digits, least significant first, no high zeros
RECURSIVE DigitsOf(_)
DigitsOf(n) == IF n = 0 THEN <<>> ELSE <<n % 16>> \o DigitsOf(n \div 16)

RECURSIVE Trim(_)
Trim(a) ==
    IF a # <<>> /\ a[Len(a)] = 0 THEN Trim(SubSeq(a, 1, Len(a) - 1)) ELSE a

Digit(a, i) == IF i <= Len(a) THEN a[i] ELSE 0

\* a + b + carry, from digit i on
RECURSIVE BigAddFrom(_, _, _, _)
BigAddFrom(a, b, i, carry) ==
    IF i > Len(a) /\ i > Len(b)
    THEN IF carry = 0 THEN <<>> ELSE <<carry>>
    ELSE LET s == Digit(a, i) + Digit(b, i) + carry
         IN  <<s % 16>> \o BigAddFrom(a, b, i + 1, s \div 16)
BigAdd(a, b) == BigAddFrom(a, b, 1, 0)

\* a - b - borrow, from digit i on, for a >= b
RECURSIVE BigSubFrom(_, _, _, _)
BigSubFrom(a, b, i, borrow) ==
    IF i > Len(a) THEN <<>>
    ELSE LET d == a[i] - Digit(b, i) - borrow
         IN  <<d % 16>> \o BigSubFrom(a, b, i + 1, IF d < 0 THEN 1 ELSE 0)
BigSub(a, b) == Trim(BigSubFrom(a, b, 1, 0))

\* a * k + carry, from digit i on, for k in 1..8
RECURSIVE BigMulFrom(_, _, _, _)
BigMulFrom(a, k, i, carry) ==
    IF i > Len(a)
    THEN IF carry = 0 THEN <<>> ELSE <<carry>>
    ELSE LET s == a[i] * k + carry
         IN  <<s % 16>> \o BigMulFrom(a, k, i + 1, s \div 16)

\* a * 2^n
ShiftLeft(a, n) == Zeros(n \div 4) \o BigMulFrom(a, Pow2(n % 4), 1, 0)

BigLess(a, b) ==
    \/ Len(a) < Len(b)
    \/ /\ Len(a) = Len(b)
       /\ \E i \in 1..Len(a) :
             /\ a[i] < b[i]
             /\ \A j \in (i + 1)..Len(a) : a[j] = b[j]

\* A float as sign, magnitude and exponent: (-1)^neg * mag * 2^e
Decode(x) ==
    [neg |-> x.neg, mag |-> Trim(Reverse(x.hex)), e |-> x.exp - (MantissaBits - 1)]

\* The float nearest to (-1)^neg * mag * 2^e, ties to the even significand
Nearest(neg, mag, e) ==
    IF mag = <<>> THEN FloatZero
    ELSE LET top == mag[Len(mag)]
             \* shift the leading bit to the lowest bit of its digit
             s == IF top = 1 THEN 0 ELSE IF top < 4 THEN 3 ELSE IF top < 8 THEN 2 ELSE 1
             n == BigMulFrom(mag, Pow2(s), 1, 0)
             d == Len(n) - HexDigits
             kept == IF d > 0 THEN SubSeq(n, d + 1, Len(n)) ELSE Zeros(-d) \o n
             up == /\ d > 0
                   /\ \/ n[d] > 8
                      \/ /\ n[d] = 8
                         /\ \/ \E i \in 1..(d - 1) : n[i] # 0
                            \/ kept[1] % 2 = 1
             rounded == IF up THEN BigAdd(kept, <<1>>) ELSE kept
             carried == rounded[HexDigits] = 2
         IN  Float(neg,
                   IF carried THEN <<1>> \o Zeros(HexDigits - 1) ELSE Reverse(rounded),
                   (e - s) + 4 * d + (MantissaBits - 1) + (IF carried THEN 1 ELSE 0))

\* float(n) of a Python int
float(n) == Nearest(n < 0, DigitsOf(Abs(n)), 0)

\* x + y
FloatAdd(x, y) ==
    LET a == Decode(x)
        b == Decode(y)
        e == IF a.e < b.e THEN a.e ELSE b.e
        am == ShiftLeft(a.mag, a.e - e)
        bm == ShiftLeft(b.mag, b.e - e)
    IN  IF a.mag = <<>> THEN y
        ELSE IF b.mag = <<>> THEN x
        ELSE IF a.neg = b.neg THEN Nearest(a.neg, BigAdd(am, bm), e)
        ELSE IF am = bm THEN FloatZero
        ELSE IF BigLess(bm, am) THEN Nearest(a.neg, BigSub(am, bm), e)
        ELSE Nearest(b.neg, BigSub(bm, am), e)

\* x - y
FloatNeg(x) == IF x = FloatZero THEN x ELSE [x EXCEPT !.neg = ~@]
FloatSub(x, y) == FloatAdd(x, FloatNeg(y))

\* sum(d.values()): ((0 + v1) + v2) + ...
RECURSIVE SumUpTo(_, _)
SumUpTo(d, n) ==
    IF n = 0 THEN float(0) ELSE FloatAdd(SumUpTo(d, n - 1), d[n].value)
FloatSum(d) == SumUpTo(d, Len(d))

\* The lines the nested loops visit, in their order:
\* for doc in docs: for line in getattr(doc, "Line", [])
RECURSIVE DocLines(_)
DocLines(docs) ==
    IF docs = <<>> THEN <<>>
    ELSE GetAttr(Head(docs).Line, PyList(<<>>)).v \o DocLines(Tail(docs))

\* Iterating a Line attribute that is None raises TypeError
LinesIterable(docs) ==
    \A i \in 1..Len(docs) : GetAttr(docs[i].Line, PyList(<<>>)).tag = "list"

\* amount = getattr(line, "Amount", 0) or 0; float(amount)
LineAmount(line) ==
    LET amount == GetAttr(line.Amount, Num(0))
    IN  IF amount.tag = "num" THEN float(amount.v)
        ELSE IF amount.tag = "float" THEN amount
        ELSE float(0)

\* getattr(ref, "name", default) if ref else default
RefName(ref, default) ==
    IF Truthy(ref) THEN GetAttr(ref.name, Str(default)) ELSE Str(default)

\* _extract_revenue_lines: the category of one invoice line
RevenueCategoryAlt(line) ==
    LET detail == GetAttr(line.SalesItemLineDetail, None)
    IN  IF Truthy(detail)
        THEN RefName(GetAttr(detail.ItemRef, None), "Other Revenue")
        ELSE Str("Other Expenses")
RevenueCategory(line) ==
    LET detail == GetAttr(line.SalesItemLineDetail, None)
    IN  IF Truthy(detail)
        THEN RefName(GetAttr(detail.ItemRef, None), "Other Revenue")
        ELSE Str("Other Revenue")

\* _extract_expense_lines: the category of one bill line
ExpenseCategoryAlt(line) ==
    LET acct_detail == GetAttr(line.AccountBasedExpenseLineDetail, None)
        item_detail == GetAttr(line.ItemBasedExpenseLineDetail, None)
    IN  IF Truthy(item_detail)
        THEN RefName(GetAttr(item_detail.ItemRef, None), "Other Expenses")
        ELSE IF Truthy(acct_detail)
        THEN RefName(GetAttr(acct_detail.AccountRef, None), "Other Expenses")
        ELSE Str("Other Expenses")
ExpenseCategory(line) ==
    LET acct_detail == GetAttr(line.AccountBasedExpenseLineDetail, None)
        item_detail == GetAttr(line.ItemBasedExpenseLineDetail, None)
    IN  IF Truthy(acct_detail)
        THEN RefName(GetAttr(acct_detail.AccountRef, None), "Other Expenses")
        ELSE IF Truthy(item_detail)
        THEN RefName(GetAttr(item_detail.ItemRef, None), "Other Expenses")
        ELSE Str("Other Expenses")

_extract_revenue_lines(invoices) ==
    IF ~LinesIterable(invoices) THEN Raised("TypeError")
    ELSE LET lines == DocLines(invoices)
         IN  PyList([i \in 1..Len(lines) |->
                        [Category |-> RevenueCategory(lines[i]),
                         Amount |-> LineAmount(lines[i])]])

_extract_expense_lines(bills) ==
    IF ~LinesIterable(bills) THEN Raised("TypeError")
    ELSE LET lines == DocLines(bills)
         IN  PyList([i \in 1..Len(lines) |->
                        [Category |-> ExpenseCategory(lines[i]),
                         Amount |-> LineAmount(lines[i])]])

\* by_cat[r["Category"]] = by_cat.get(r["Category"], 0) + r["Amount"]
GroupStep(by_cat, r) ==
    DictSet(by_cat, r.Category,
            FloatAdd(DictGet(by_cat, r.Category, float(0)), r.Amount))

RECURSIVE GroupFrom(_, _, _)
GroupFrom(lines, i, by_cat) ==
    IF i > Len(lines) THEN by_cat
    ELSE GroupFrom(lines, i + 1, GroupStep(by_cat, lines[i]))

GroupByCategoryAlt(lines) ==
    GroupFrom(lines, 1, <<[key |-> Str("Uncategorized"), value |-> float(0)]>>)
GroupByCategory(lines) == GroupFrom(lines, 1, <<>>)

RECURSIVE SeqSum(_)
SeqSum(s) == IF s = <<>> THEN 0 ELSE Head(s) + SeqSum(Tail(s))

\* _simple_pl: df["TotalAmt"].sum() if not df.empty else 0
_simple_plAlt(df_invoices, df_bills) ==
    LET total_revenue == SeqSum(df_invoices.TotalAmt)
        total_expenses == SeqSum(df_bills.TotalAmt)
    IN  ("revenue_detail" :> <<>>)
        @@ ("expense_detail" :> <<>>)
        @@ ("Total Revenue" :> total_revenue)
        @@ ("Total Expenses" :> total_expenses)
        @@ ("Net Income" :> total_revenue - total_expenses)
_simple_pl(df_invoices, df_bills) ==
    LET total_revenue ==
            IF Len(df_invoices.TotalAmt) # 0 THEN SeqSum(df_invoices.TotalAmt) ELSE 0
        total_expenses ==
            IF Len(df_bills.TotalAmt) # 0 THEN SeqSum(df_bills.TotalAmt) ELSE 0
        net_income == total_revenue - total_expenses
    IN  ("Total Revenue" :> total_revenue)
        @@ ("Total Expenses" :> total_expenses)
        @@ ("Net Income" :> net_income)

\* The detailed path of generate_profit_loss_statement, from the extracted lines
DetailedPL(rev_lines, exp_lines) ==
    LET rev_by_cat == GroupByCategory(rev_lines)
        exp_by_cat == GroupByCategory(exp_lines)
        total_revenue == FloatSum(rev_by_cat)
        total_expenses == FloatSum(exp_by_cat)
        gross_profit == FloatSub(total_revenue, total_expenses)
    IN  ("revenue_detail" :> rev_by_cat)
        @@ ("expense_detail" :> exp_by_cat)
        @@ ("Total Revenue" :> total_revenue)
        @@ ("Total Expenses" :> total_expenses)
        @@ ("Gross Profit" :> gross_profit)
        @@ ("Net Income" :> gross_profit)

\* ---- inputs of the P&L engine ----

\* Most documents of one input, and most lines of all its documents
\* together; most lines of a document whose amounts have cents
MaxDocs == 2
MaxLines == 2
MaxCentsLines == 3

SeqsUpTo(S, n) == UNION {[1..k -> S] : k \in 0..n}

Doc(lines) == [Line |-> PyList(lines)]

\* The ways to hand the lines ls out, in order, to d documents
RECURSIVE Splits(_, _)
Splits(ls, d) ==
    IF d = 1 THEN {<<Doc(ls)>>}
    ELSE UNION {{<<Doc(SubSeq(ls, 1, c))>> \o rest :
                    rest \in Splits(SubSeq(ls, c + 1, Len(ls)), d - 1)} :
                c \in 0..Len(ls)}

\* Every sequence of at most MaxDocs documents over at most MaxLines lines
DocsOver(lines) ==
    {<<>>} \cup UNION {Splits(ls, d) : ls \in SeqsUpTo(lines, MaxLines),
                                      d \in 1..MaxDocs}

\* One document of at most MaxCentsLines lines
CentsDocs(lines) == {<<Doc(ls)>> : ls \in SeqsUpTo(lines, MaxCentsLines)}

\* Documents without a Line attribute, or whose Line is None
OddDocs(lines) ==
    {<<[Line |-> a]>> : a \in {Absent, None}}
    \cup {<<[Line |-> a], Doc(<<l>>)>> : a \in {Absent, None}, l \in lines}
    \cup {<<Doc(<<l>>), [Line |-> a]>> : a \in {Absent, None}, l \in lines}

NameValues(names) == {Absent, None, Str("")} \cup {Str(n) : n \in names}
RefValues(names) ==
    {Absent, None} \cup {[tag |-> "obj", name |-> n] : n \in NameValues(names)}

SalesDetails(names) ==
    {Absent, None} \cup {[tag |-> "obj", ItemRef |-> r] : r \in RefValues(names)}
AcctDetails(names) ==
    {Absent, None} \cup {[tag |-> "obj", AccountRef |-> r] : r \in RefValues(names)}
ItemDetails(names) ==
    {Absent, None} \cup {[tag |-> "obj", ItemRef |-> r] : r \in RefValues(names)}

Named(n) == [tag |-> "obj", name |-> Str(n)]

\* Invoice lines: every shape of a single line, and the well-formed lines
RevenueLinesFull ==
    [Amount : {Absent, None, Num(0), Num(1000), Num(-250)},
     SalesItemLineDetail : SalesDetails({"Consulting", "Products"})]
RevenueLinesPlain ==
    [Amount : {Num(5000), Num(3000)},
     SalesItemLineDetail :
        {None} \cup {[tag |-> "obj", ItemRef |-> Named(n)] :
                        n \in {"Consulting", "Products"}}]

\* Amounts with cents, as the floats the API's JSON parses to: 0.1, 0.2, 0.3
Cents ==
    {Float(FALSE, <<1, 9, 9, 9, 9, 9, 9, 9, 9, 9, 9, 9, 9, 10>>, -4),
     Float(FALSE, <<1, 9, 9, 9, 9, 9, 9, 9, 9, 9, 9, 9, 9, 10>>, -3),
     Float(FALSE, <<1, 3, 3, 3, 3, 3, 3, 3, 3, 3, 3, 3, 3, 3>>, -2)}
RevenueLinesCents ==
    [Amount : Cents,
     SalesItemLineDetail :
        {[tag |-> "obj", ItemRef |-> Named(n)] : n \in {"Consulting", "Products"}}]

\* Bill lines: every shape of a single line, and the well-formed lines
ExpenseLinesFull ==
    [Amount : {Absent, None, Num(0), Num(1000), Num(-250)},
     AccountBasedExpenseLineDetail : AcctDetails({"Rent", "Supplies"}),
     ItemBasedExpenseLineDetail : ItemDetails({"Rent", "Supplies"})]
ExpenseLinesPlain ==
    [Amount : {Num(2000), Num(500)},
     AccountBasedExpenseLineDetail :
        {None, [tag |-> "obj", AccountRef |-> Named("Rent")]},
     ItemBasedExpenseLineDetail :
        {None, [tag |-> "obj", ItemRef |-> Named("Supplies")]}]

ExpenseLinesCents ==
    [Amount : Cents,
     AccountBasedExpenseLineDetail :
        {[tag |-> "obj", AccountRef |-> Named(n)] : n \in {"Rent", "Supplies"}},
     ItemBasedExpenseLineDetail : {None}]

InvoiceInputs ==
    DocsOver(RevenueLinesPlain) \cup OddDocs(RevenueLinesPlain)
    \cup CentsDocs(RevenueLinesCents)
    \cup {<<Doc(<<l>>)>> : l \in RevenueLinesFull}
BillInputs ==
    DocsOver(ExpenseLinesPlain) \cup OddDocs(ExpenseLinesPlain)
    \cup CentsDocs(ExpenseLinesCents)
    \cup {<<Doc(<<l>>)>> : l \in ExpenseLinesFull}

\* The documents of test_categorized_revenue_and_expenses
ScenarioInvoices ==
    <<Doc(<<[Amount |-> Num(5000),
             SalesItemLineDetail |-> [tag |-> "obj", ItemRef |-> Named("Consulting")]],
            [Amount |-> Num(3000),
             SalesItemLineDetail |-> [tag |-> "obj", ItemRef |-> Named("Products")]]>>)>>
ScenarioBills ==
    <<Doc(<<[Amount |-> Num(2000),
             AccountBasedExpenseLineDetail |-> [tag |-> "obj", AccountRef |-> Named("Rent")],
             ItemBasedExpenseLineDetail |-> None],
            [Amount |-> Num(500),
             AccountBasedExpenseLineDetail |-> None,
             ItemBasedExpenseLineDetail |-> [tag |-> "obj", ItemRef |-> Named("Supplies")]]>>)>>

\* The TotalAmt columns of the DataFrames handed to the simple path
TotalAmtColumns == SeqsUpTo({5000, 3000, 1000}, MaxDocs)

FetchIdle ==
    /\ source_size = 0
    /\ filters = None
    /\ pc = "idle"
    /\ start = 1
    /\ all_records = <<>>
    /\ page = None
    /\ attempt = 0
    /\ calls = <<>>
    /\ sleeps = <<>>
    /\ slept = 0
    /\ requests = <<>>
    /\ raised = None
    /\ result = None

\* The arguments are two lists of documents (one side ranges over all its
\* inputs while the other is empty or the test's documents), or two DataFrames.
InitPL ==
    /\ FetchIdle
    /\ BSIdle
    /\ CFIdle
    /\ MainIdle
    /\ NoCancel
    /\ RowsIdle
    /\ \/ /\ invoices_or_df \in {PyList(d) : d \in InvoiceInputs}
          /\ bills_or_df \in {PyList(<<>>), PyList(ScenarioBills)}
       \/ /\ invoices_or_df \in {PyList(<<>>), PyList(ScenarioInvoices)}
          /\ bills_or_df \in {PyList(d) : d \in BillInputs}
       \/ /\ invoices_or_df \in {DataFrame(c) : c \in TotalAmtColumns}
          /\ bills_or_df \in {DataFrame(c) : c \in TotalAmtColumns}
    /\ revenue_lines = <<>>
    /\ expense_lines = <<>>
    /\ pl_statement = None

\* generate_profit_loss_statement(invoices_or_df, bills_or_df)
generate_profit_loss_statement ==
    /\ pl_statement = None
    /\ invoices_or_df # None
    /\ IF invoices_or_df.tag = "DataFrame"
       THEN /\ pl_statement' = _simple_pl(invoices_or_df, bills_or_df)
            /\ UNCHANGED <<revenue_lines, expense_lines>>
       ELSE LET rev == _extract_revenue_lines(invoices_or_df.v)
                exp == _extract_expense_lines(bills_or_df.v)
            IN  IF rev.tag = "raised"
                THEN /\ pl_statement' = rev
                     /\ UNCHANGED <<revenue_lines, expense_lines>>
                ELSE IF exp.tag = "raised"
                THEN /\ pl_statement' = exp
                     /\ revenue_lines' = rev.v
                     /\ UNCHANGED expense_lines
                ELSE /\ revenue_lines' = rev.v
                     /\ expense_lines' = exp.v
                     /\ pl_statement' = DetailedPL(rev.v, exp.v)
    /\ UNCHANGED <<invoices_or_df, bills_or_df, pl_rest>>

NextPL == generate_profit_loss_statement

SpecPL == InitPL /\ [][NextPL]_vars

----------------------------------------------------------------------------
(* reporting.py: the rows of the P&L report, built from the statement the  *)
(* P&L engine returned                                                     *)

\* (label, amount, style); the amount of a section or spacer row is None
Row(label, amount, style) == [label |-> label, amount |-> amount, style |-> style]

\* str(cat) inside the f-string of a detail label
PyStr(x) == IF x.tag = "str" THEN x.v ELSE "None"

\* pl_statement.get(key, default)
PLGet(pl, key, default) == IF key \in DOMAIN pl THEN pl[key] ELSE default

\* for cat, amt in detail.items(): rows.append((f"  {cat}", amt, "detail"))
DetailRows(detail) ==
    [i \in 1..Len(detail) |->
        Row("  " \o PyStr(detail[i].key), Num(detail[i].value), "detail")]

Spacer == Row("", None, "spacer")

BuildPLRowsAlt(pl) ==
    IF "revenue_detail" \in DOMAIN pl
    THEN <<Row("Revenue", None, "section")>>
         \o DetailRows(pl["revenue_detail"])
         \o <<Row("Total Revenue", Num(pl["Total Revenue"]), "subtotal"), Spacer,
              Row("Expenses", None, "section")>>
         \o DetailRows(pl["expense_detail"])
         \o <<Row("Total Expenses", Num(pl["Total Expenses"]), "subtotal"), Spacer,
              Row("Net Income", Num(PLGet(pl, "Net Income", 0)), "total"), Spacer,
              Row("Gross Profit", Num(PLGet(pl, "Gross Profit", 0)), "subtotal")>>
    ELSE <<Row("Net Income", Num(PLGet(pl, "Net Income", 0)), "total"),
           Row("Total Revenue", Num(PLGet(pl, "Total Revenue", 0)), "detail"),
           Row("Total Expenses", Num(PLGet(pl, "Total Expenses", 0)), "detail")>>
BuildPLRows(pl) ==
    (IF "revenue_detail" \in DOMAIN pl
     THEN <<Row("Revenue", None, "section")>>
          \o DetailRows(pl["revenue_detail"])
          \o <<Row("Total Revenue", Num(pl["Total Revenue"]), "subtotal"), Spacer,
               Row("Expenses", None, "section")>>
          \o DetailRows(pl["expense_detail"])
          \o <<Row("Total Expenses", Num(pl["Total Expenses"]), "subtotal"), Spacer,
               Row("Gross Profit", Num(PLGet(pl, "Gross Profit", 0)), "subtotal"),
               Spacer>>
     ELSE <<Row("Total Revenue", Num(PLGet(pl, "Total Revenue", 0)), "detail"),
            Row("Total Expenses", Num(PLGet(pl, "Total Expenses", 0)), "detail"),
            Spacer>>)
    \* Net Income (always last)
    \o <<Row("Net Income", Num(PLGet(pl, "Net Income", 0)), "total")>>

\* _build_pl_rows(pl_statement), on the statement generate_profit_loss_statement returned
_build_pl_rows ==
    /\ "Net Income" \in DOMAIN pl_statement
    /\ rows = None
    /\ rows' = PyList(BuildPLRows(pl_statement))
    /\ UNCHANGED <<fetch_vars, pl_vars, bs_vars, cf_vars, main_vars, cancel_requested>>

NextRows ==
    \/ generate_profit_loss_statement
    \/ _build_pl_rows

SpecRows == InitPL /\ [][NextRows]_vars

----------------------------------------------------------------------------
(* data_processor.py: the balance sheet *)

\* Most accounts of one input
MaxAccounts == 2

Account(name, balance, acc_type) ==
    [Name |-> name, CurrentBalance |-> balance, AccountType |-> acc_type]

\* Accounts with or without a name, a balance and a declared type
AccountValues ==
    {Account(n, b, t) :
        n \in {Absent, Str("Cash"), Str("Loan")},
        b \in {Absent, Num(5000), Num(2000)},
        t \in {None, Str("Bank"), Str("Accounts Payable"), Str("Suspense")}}

\* The accounts of test_grouped_output
ScenarioAccounts ==
    <<Account(Str("Checking"), Num(10000), Str("Bank")),
      Account(Str("AR"), Num(5000), Str("Accounts Receivable")),
      Account(Str("AP"), Num(3000), Str("Accounts Payable")),
      Account(Str("Owner Equity"), Num(12000), Str("Equity"))>>

AccountInputs == SeqsUpTo(AccountValues, MaxAccounts) \cup {ScenarioAccounts}

InitBS ==
    /\ FetchIdle
    /\ PLIdle
    /\ CFIdle
    /\ MainIdle
    /\ NoCancel
    /\ RowsIdle
    /\ accounts \in {PyList(a) : a \in AccountInputs}
    /\ balance_data = None

\* balance_data[acc_name] = acc_balance, for each account in turn
RECURSIVE BalancesFrom(_, _, _)
BalancesFrom(accs, i, data) ==
    IF i > Len(accs) THEN data
    ELSE BalancesFrom(accs, i + 1,
            DictSet(data,
                    GetAttr(accs[i].Name, Str("Unknown Account")),
                    GetAttr(accs[i].CurrentBalance, Num(0)).v))

\* generate_balance_sheet_data(accounts): {account_name: current_balance}
BalanceSheetData(accs) ==
    IF Len(accs) = 0 THEN <<>> ELSE BalancesFrom(accs, 1, <<>>)

generate_balance_sheet_data ==
    /\ accounts # None
    /\ balance_data = None
    /\ balance_data' = PyDict(BalanceSheetData(accounts.v))
    /\ UNCHANGED <<accounts, bs_rest>>

NextBS == generate_balance_sheet_data

SpecBS == InitBS /\ [][NextBS]_vars

----------------------------------------------------------------------------
(* The cash flow engine (indirect method).  Its code is not among the      *)
(* source files: it is modelled from the construction rule of the          *)
(* specification, on the category maps of test_reporting.py.               *)

Item(k, x) == [key |-> Str(k), value |-> x]

\* The category maps, pre-classified by the caller
OperatingMaps ==
    {<<>>,
     <<Item("Accounts Receivable", -3000)>>,
     <<Item("Accounts Receivable", -3000), Item("Accounts Payable", 2000)>>}
InvestingMaps == {<<>>, <<Item("Fixed Assets", -5000)>>}
FinancingMaps == {<<>>, <<Item("Equity", 20000)>>}
NetIncomes == {10000, 0, -500}
BeginningCash == {0, -9000, 1000}

InitCF ==
    /\ FetchIdle
    /\ PLIdle
    /\ BSIdle
    /\ MainIdle
    /\ NoCancel
    /\ RowsIdle
    /\ cf_input \in [net_income : NetIncomes,
                     operating : OperatingMaps,
                     investing : InvestingMaps,
                     financing : FinancingMaps,
                     beginning_cash : BeginningCash]
    /\ cash_flow = None

\* The sum of the deltas of a category map
RECURSIVE SumOfDeltas(_)
SumOfDeltas(deltas) ==
    IF deltas = <<>> THEN 0 ELSE Head(deltas).value + SumOfDeltas(Tail(deltas))

\* net_operating = sum of the operating deltas
NetOperatingAlt(net_income, operating) == net_income + SumOfDeltas(operating)
NetOperating(net_income, operating) == SumOfDeltas(operating)

\* net_change_in_cash = net_operating + net_investing + net_financing
NetChangeInCash(net_operating, net_investing, net_financing) ==
    net_operating + net_investing + net_financing

CashFlowStatement(in) ==
    LET net_operating == NetOperating(in.net_income, in.operating)
        net_investing == SumOfDeltas(in.investing)
        net_financing == SumOfDeltas(in.financing)
        net_change_in_cash ==
            NetChangeInCash(net_operating, net_investing, net_financing)
    IN  [net_income |-> in.net_income,
         operating |-> in.operating,
         net_operating |-> net_operating,
         investing |-> in.investing,
         net_investing |-> net_investing,
         financing |-> in.financing,
         net_financing |-> net_financing,
         net_change_in_cash |-> net_change_in_cash,
         ending_cash |-> in.beginning_cash + net_change_in_cash]

generate_cash_flow_statement ==
    /\ cf_input # None
    /\ cash_flow = None
    /\ cash_flow' = CashFlowStatement(cf_input)
    /\ UNCHANGED <<cf_input, cf_rest>>

NextCF == generate_cash_flow_statement

SpecCF == InitCF /\ [][NextCF]_vars

----------------------------------------------------------------------------
(* main.py: main(), from the fetches on.  A fetch is taken as a whole: it   *)
(* prints what _retry_call prints before each retry, then returns a list   *)
(* or raises what _paginate raises.  The lists fit in one page, so a fetch *)
(* is one _retry_call.                                                     *)

\* print(...): the level, what the line is about, the exception it shows
Line(level, about, exc) == [level |-> level, about |-> about, exc |-> exc]

MainInvoices == {ScenarioInvoices, <<[Line |-> None]>>}
MainBills == {ScenarioBills, <<>>}
MainAccounts ==
    {ScenarioAccounts,
     <<Account(Str("Cash"), Num(5000), Str("Bank")),
       Account(Str("Cash"), Num(2000), Str("Bank"))>>}

\* The errors _retry_call retries, and the failed attempts one _retry_call
\* can retry: at most MAX_RETRIES, each of any retried kind
IsRetried(k) == IsQuickbooksException(k) /\ ~IsAuthorizationException(k)
RetryLogs ==
    UNION {[1..n -> {k \in ErrorKinds : IsRetried(k)}] : n \in 0..MAX_RETRIES}

\* print("[WARNING] API call failed (attempt i/5): e"); print("[INFO] Retrying in ...")
RECURSIVE RetryLines(_)
RetryLines(log) ==
    IF log = <<>> THEN <<>>
    ELSE <<Line("WARNING", "API call failed", Head(log)), Line("INFO", "Retrying", "")>>
         \o RetryLines(Tail(log))

\* The fetch returns after the retries of log
FetchReturned(about, log) ==
    /\ printed' = printed \o <<Line("INFO", about, "")>> \o RetryLines(log)

\* What saving a report file can raise
ExportErrors == {"PermissionError"}

InitMain ==
    /\ FetchIdle
    /\ PLIdle
    /\ BSIdle
    /\ CFIdle
    /\ NoCancel
    /\ RowsIdle
    /\ main_pc = "fetch_invoices"
    /\ printed = <<>>
    /\ exported = <<>>
    /\ uncaught = None

\* The fetch raises k after the retries of log: a retried kind is raised by
\* the last attempt only.
\* except Exception as e: print("[ERROR] An error occurred while fetching data"); return
FetchFailed(about) ==
    \E log \in RetryLogs, k \in ErrorKinds :
        /\ IsRetried(k) => Len(log) = MAX_RETRIES
        /\ printed' = printed \o <<Line("INFO", about, "")>> \o RetryLines(log)
                          \o <<Line("ERROR", "fetching data", k)>>
        /\ main_pc' = "done"

\* invoices = qb_client.get_invoices(filters=invoice_filter)
FetchInvoices ==
    /\ main_pc = "fetch_invoices"
    /\ \/ /\ \E docs \in MainInvoices : invoices_or_df' = PyList(docs)
          /\ \E log \in RetryLogs : FetchReturned("Fetching Invoices", log)
          /\ main_pc' = "fetch_bills"
       \/ /\ FetchFailed("Fetching Invoices")
          /\ UNCHANGED invoices_or_df
    /\ UNCHANGED <<bills_or_df, revenue_lines, expense_lines, pl_statement,
                   bs_vars, exported, uncaught, main_rest>>

\* bills = qb_client.get_bills(filters=bill_filter)
FetchBills ==
    /\ main_pc = "fetch_bills"
    /\ \/ /\ \E docs \in MainBills : bills_or_df' = PyList(docs)
          /\ \E log \in RetryLogs : FetchReturned("Fetching Bills", log)
          /\ main_pc' = "fetch_accounts"
       \/ /\ FetchFailed("Fetching Bills")
          /\ UNCHANGED bills_or_df
    /\ UNCHANGED <<invoices_or_df, revenue_lines, expense_lines, pl_statement,
                   bs_vars, exported, uncaught, main_rest>>

\* accounts = qb_client.get_accounts()
FetchAccounts ==
    /\ main_pc = "fetch_accounts"
    /\ \/ /\ \E accs \in MainAccounts : accounts' = PyList(accs)
          /\ \E log \in RetryLogs : FetchReturned("Fetching Accounts", log)
          /\ main_pc' = "build_pl"
       \/ /\ FetchFailed("Fetching Accounts")
          /\ UNCHANGED accounts
    /\ UNCHANGED <<pl_vars, balance_data, exported, uncaught, main_rest>>

\* pl_statement = processor.generate_profit_loss_statement(invoices, bills)
\* The call is not inside a try: what it raises leaves main().
BuildProfitLoss ==
    /\ main_pc = "build_pl"
    /\ LET rev == _extract_revenue_lines(invoices_or_df.v)
           exp == _extract_expense_lines(bills_or_df.v)
       IN  IF rev.tag = "raised"
           THEN /\ uncaught' = rev
                /\ main_pc' = "aborted"
                /\ UNCHANGED <<revenue_lines, expense_lines, pl_statement>>
           ELSE IF exp.tag = "raised"
           THEN /\ uncaught' = exp
                /\ main_pc' = "aborted"
                /\ revenue_lines' = rev.v
                /\ UNCHANGED <<expense_lines, pl_statement>>
           ELSE /\ revenue_lines' = rev.v
                /\ expense_lines' = exp.v
                /\ pl_statement' = DetailedPL(rev.v, exp.v)
                /\ main_pc' = "build_bs"
                /\ UNCHANGED uncaught
    /\ UNCHANGED <<invoices_or_df, bills_or_df, bs_vars, printed, exported,
                   main_rest>>

\* balance_data = processor.generate_balance_sheet_data(accounts)
BuildBalanceSheet ==
    /\ main_pc = "build_bs"
    /\ balance_data' = PyDict(BalanceSheetData(accounts.v))
    /\ main_pc' = "export_pl"
    /\ UNCHANGED <<pl_vars, accounts, printed, exported, uncaught, main_rest>>

\* report_gen.export_<statement>(...): the file is saved and the line
\* "... report saved as" printed, or saving raises and the exception leaves main().
Export(statement, next_pc) ==
    \/ /\ exported' = Append(exported, statement)
       /\ printed' = Append(printed, Line("INFO", statement \o " report saved", ""))
       /\ main_pc' = next_pc
       /\ UNCHANGED uncaught
    \/ /\ \E e \in ExportErrors : uncaught' = Raised(e)
       /\ main_pc' = "aborted"
       /\ UNCHANGED <<exported, printed>>

ExportProfitLoss ==
    /\ main_pc = "export_pl"
    /\ Export("P&L", "export_bs")
    /\ UNCHANGED <<pl_vars, bs_vars, main_rest>>

ExportBalanceSheet ==
    /\ main_pc = "export_bs"
    /\ Export("Balance Sheet", "completed")
    /\ UNCHANGED <<pl_vars, bs_vars, main_rest>>

\* print("[INFO] Financial reporting completed successfully.")
Completed ==
    /\ main_pc = "completed"
    /\ printed' = Append(printed, Line("INFO", "completed successfully", ""))
    /\ main_pc' = "done"
    /\ UNCHANGED <<pl_vars, bs_vars, exported, uncaught, main_rest>>

NextMain ==
    \/ FetchInvoices
    \/ FetchBills
    \/ FetchAccounts
    \/ BuildProfitLoss
    \/ BuildBalanceSheet
    \/ ExportProfitLoss
    \/ ExportBalanceSheet
    \/ Completed

SpecMain == InitMain /\ [][NextMain]_vars

----------------------------------------------------------------------------
(* Claims about the fetch layer *)

Last(s) == s[Len(s)]

NonDecreasing(s) == \A i \in 1..(Len(s) - 1) : s[i] <= s[i + 1]

\* The start positions of the first j requests of the fetch
StartsUpTo(j) == {requests[k].start_position : k \in 1..j}

\* C1: an authorization error raised by any attempt leaves _retry_call at
\* once as that same error: it is the last invocation of the call, and the
\* only sleeps are those that followed the earlier failed attempts (none when
\* it is raised by the first attempt).
C1_AuthErrorNotRetried ==
    \A i \in 1..Len(calls) :
        IsAuthorizationException(calls[i]) =>
            /\ i = Len(calls)
            /\ pc = "raised"
            /\ raised = [kind |-> calls[i], call |-> i]
            /\ Len(sleeps) = i - 1

C1_Witness ==
    /\ pc = "raised"
    /\ calls = <<"auth">>
    /\ sleeps = <<>>
    /\ Len(requests) = 1

\* C2: when every attempt raises a transient error, _retry_call invokes the
\* call exactly 5 times, sleeps after each failure but the last (4 sleeps),
\* then raises the error of the fifth attempt; it never returns normally.
C2_ExhaustedRetriesRaiseLast ==
    (\A i \in 1..Len(calls) : calls[i] = "server") =>
        /\ Len(calls) <= 5
        /\ pc \in {"call", "raised"}
        /\ pc = "call" => Len(calls) < 5 /\ Len(sleeps) = Len(calls)
        /\ pc = "raised" =>
              /\ Len(calls) = 5
              /\ Len(sleeps) = 4
              /\ raised = [kind |-> calls[5], call |-> 5]

C2_Witness ==
    /\ pc = "raised"
    /\ calls = <<"server", "server", "server", "server", "server">>
    /\ Len(sleeps) = 4

\* C3: when the first k attempts (k in 0..4) raise a transient error and
\* attempt k+1 succeeds, _retry_call returns the page that attempt received,
\* after k+1 invocations and k sleeps whose delays never decrease.
C3_SuccessAfterTransientErrors ==
    (/\ pc = "returned"
     /\ \A i \in 1..(Len(calls) - 1) : calls[i] = "server") =>
        /\ Len(calls) \in 1..5
        /\ Last(calls) = "ok"
        /\ page = PyList(SourcePage(source_size, start, 100))
        /\ Len(sleeps) = Len(calls) - 1
        /\ NonDecreasing(sleeps)

C3_Witness ==
    /\ pc = "returned"
    /\ calls = <<"server", "server", "ok">>
    /\ Len(sleeps) = 2
    /\ Len(page.v) = 50

\* C4: _paginate moves on to another page only from a page of exactly 100
\* records; from an empty page or a page of fewer than 100 records it
\* returns, and once it has returned it sends no request.
C4_NextPageOnlyAfterFullPage ==
    [][/\ start' # start => pc = "returned" /\ Len(page.v) = 100
       /\ (pc = "returned" /\ Len(page.v) < 100) =>
              pc' = "done" /\ requests' = requests
       /\ pc = "done" => requests' = requests]_vars

C4_Witness ==
    /\ pc = "done"
    /\ source_size = 200
    /\ Len(page.v) = 0
    /\ StartsUpTo(Len(requests)) = {1, 101, 201}

\* C5: a fetch from a source of N records ends, and when it returns it has
\* asked for exactly N \div 100 + 1 pages and returns the N records in the
\* server's order, each once.
C5_FetchReturnsAllRecords ==
    /\ [](pc = "done" =>
            /\ result = PyList(Records(source_size))
            /\ Cardinality(StartsUpTo(Len(requests))) = (source_size \div 100) + 1)
    /\ <>(pc \in {"done", "raised"})

C5_Witness ==
    /\ pc = "done"
    /\ source_size = 250
    /\ Len(result.v) = 250
    /\ Cardinality(StartsUpTo(Len(requests))) = 3

\* C6: every request of a fetch, retried attempts included, asks for 100
\* records with the caller's filter as given (an absent or empty filter is an
\* unfiltered request), and the requests for the i-th page start at
\* 1 + 100 * (i - 1), with or without a filter.
C6_RequestsCarryFilterAndCursor ==
    \A j \in 1..Len(requests) :
        /\ requests[j].max_results = 100
        /\ FilterTruthy(filters) =>
              requests[j].method = "where" /\ requests[j].filter = filters
        /\ ~FilterTruthy(filters) =>
              requests[j].method = "all" /\ requests[j].filter = None
        /\ requests[j].start_position =
              1 + 100 * (Cardinality(StartsUpTo(j)) - 1)

C6_Witness ==
    /\ FilterTruthy(filters)
    /\ Len(requests) > 3
    /\ requests[Len(requests)] =
          [method |-> "where", filter |-> filters,
           start_position |-> 201, max_results |-> 100]

\* C7: a permanent error other than an authorization error (a malformed
\* query reported by the service) is never retried: it leaves _retry_call
\* after the attempt that raised it, and no sleep follows it.
C7_PermanentErrorNotRetried ==
    \A i \in 1..Len(calls) :
        calls[i] = "validation" =>
            /\ i = Len(calls)
            /\ pc = "raised"
            /\ raised = [kind |-> calls[i], call |-> i]
            /\ Len(sleeps) = i - 1

----------------------------------------------------------------------------
(* Claims about the P&L engine *)

\* The amount a source line carries, as a float: 0 when it has none
RawAmount(line) ==
    IF line.Amount.tag = "num" THEN float(line.Amount.v)
    ELSE IF line.Amount.tag = "float" THEN line.Amount
    ELSE float(0)

\* The sum of the amounts of the first n source lines, added up in their order
RECURSIVE SumOfFirst(_, _)
SumOfFirst(lines, n) ==
    IF n = 0 THEN float(0)
    ELSE FloatAdd(SumOfFirst(lines, n - 1), RawAmount(lines[n]))
SumOfAmounts(lines) == SumOfFirst(lines, Len(lines))

\* The sum of the amounts of those of the first n categorized lines that are
\* filed under category k, added up in their order
RECURSIVE CategorySumOfFirst(_, _, _)
CategorySumOfFirst(lines, k, n) ==
    IF n = 0 THEN float(0)
    ELSE IF lines[n].Category = k
    THEN FloatAdd(CategorySumOfFirst(lines, k, n - 1), lines[n].Amount)
    ELSE CategorySumOfFirst(lines, k, n - 1)
CategorySum(lines, k) == CategorySumOfFirst(lines, k, Len(lines))

IsCategorized(pl) == "revenue_detail" \in DOMAIN pl

\* A detail payload that is present and references something with a name
NamedRef(ref) == Truthy(ref) /\ ref.name.tag = "str" /\ ref.name.v # ""

\* Each category of the map d occurs once and holds the sum of its lines
EachLineOnce(d, lines) ==
    /\ Cardinality(DictKeys(d)) = Len(d)
    /\ DictKeys(d) = {lines[i].Category : i \in 1..Len(lines)}
    /\ \A i \in 1..Len(d) : d[i].value = CategorySum(lines, d[i].key)

\* C8: the values of revenue_detail add up to the amounts of all invoice
\* lines and those of expense_detail to the amounts of all bill lines (each
\* sum taken in the order of its terms), every line counting once, under one
\* category.
C8_CategorizationConservesAmounts ==
    IsCategorized(pl_statement) =>
        /\ FloatSum(pl_statement["revenue_detail"])
              = SumOfAmounts(DocLines(invoices_or_df.v))
        /\ FloatSum(pl_statement["expense_detail"])
              = SumOfAmounts(DocLines(bills_or_df.v))
        /\ EachLineOnce(pl_statement["revenue_detail"], revenue_lines)
        /\ EachLineOnce(pl_statement["expense_detail"], expense_lines)

\* C9: an invoice line with a sales-item detail is filed under the name of
\* the item the detail references, a line without one under "Other Revenue",
\* and in both cases with the amount of the line.
C9_RevenueLineCategory ==
    IsCategorized(pl_statement) =>
        LET lines == DocLines(invoices_or_df.v)
        IN  /\ Len(revenue_lines) = Len(lines)
            /\ \A i \in 1..Len(lines) :
                  LET detail == lines[i].SalesItemLineDetail
                  IN  /\ (Truthy(detail) /\ NamedRef(detail.ItemRef)) =>
                            revenue_lines[i].Category = detail.ItemRef.name
                      /\ ~Truthy(detail) =>
                            revenue_lines[i].Category = Str("Other Revenue")
                      /\ revenue_lines[i].Amount = RawAmount(lines[i])

C9_Witness ==
    /\ IsCategorized(pl_statement)
    /\ DocLines(invoices_or_df.v) =
          <<[Amount |-> Num(1000), SalesItemLineDetail |-> None]>>
    /\ revenue_lines = <<[Category |-> Str("Other Revenue"), Amount |-> float(1000)]>>
    /\ pl_statement["revenue_detail"] =
          <<[key |-> Str("Other Revenue"), value |-> float(1000)]>>

\* C10: a bill line with an account-based detail is filed under the name of
\* the account it references, whatever item-based detail it also carries; a
\* line with only an item-based detail under the name of the item; a line
\* with neither under "Other Expenses".
C10_ExpenseLinePriority ==
    IsCategorized(pl_statement) =>
        LET lines == DocLines(bills_or_df.v)
        IN  /\ Len(expense_lines) = Len(lines)
            /\ \A i \in 1..Len(lines) :
                  LET acct == lines[i].AccountBasedExpenseLineDetail
                      item == lines[i].ItemBasedExpenseLineDetail
                  IN  /\ (Truthy(acct) /\ NamedRef(acct.AccountRef)) =>
                            expense_lines[i].Category = acct.AccountRef.name
                      /\ (~Truthy(acct) /\ Truthy(item) /\ NamedRef(item.ItemRef)) =>
                            expense_lines[i].Category = item.ItemRef.name
                      /\ (~Truthy(acct) /\ ~Truthy(item)) =>
                            expense_lines[i].Category = Str("Other Expenses")

\* A line with both details, naming different categories, is filed under the
\* account's.
C10_Witness ==
    /\ IsCategorized(pl_statement)
    /\ Len(expense_lines) = 1
    /\ DocLines(bills_or_df.v)[1].AccountBasedExpenseLineDetail
          = [tag |-> "obj", AccountRef |-> Named("Rent")]
    /\ DocLines(bills_or_df.v)[1].ItemBasedExpenseLineDetail
          = [tag |-> "obj", ItemRef |-> Named("Supplies")]
    /\ expense_lines[1].Category = Str("Rent")

\* A category label that is a non-empty string
ProperLabel(c) == c.tag = "str" /\ c.v # ""

\* C11: no line gets a blank category: a line whose detail is present but
\* has no reference, or a reference without a name (absent, None or empty),
\* is filed under "Other Revenue" (invoice lines) or "Other Expenses" (bill
\* lines).
C11_NoBlankCategory ==
    IsCategorized(pl_statement) =>
        /\ \A i \in 1..Len(revenue_lines) :
              LET detail == DocLines(invoices_or_df.v)[i].SalesItemLineDetail
              IN  /\ ProperLabel(revenue_lines[i].Category)
                  /\ (Truthy(detail) /\ ~NamedRef(detail.ItemRef)) =>
                        revenue_lines[i].Category = Str("Other Revenue")
        /\ \A i \in 1..Len(expense_lines) :
              LET acct == DocLines(bills_or_df.v)[i].AccountBasedExpenseLineDetail
                  item == DocLines(bills_or_df.v)[i].ItemBasedExpenseLineDetail
              IN  /\ ProperLabel(expense_lines[i].Category)
                  /\ (Truthy(acct) /\ ~NamedRef(acct.AccountRef)) =>
                        expense_lines[i].Category = Str("Other Expenses")
                  /\ (~Truthy(acct) /\ Truthy(item) /\ ~NamedRef(item.ItemRef)) =>
                        expense_lines[i].Category = Str("Other Expenses")

\* C12: categorization never raises, whatever is absent or None (amount,
\* detail, reference, the Line list of a document), and a line without an
\* amount counts as 0.
C12_CategorizationTotal ==
    /\ "exc" \notin DOMAIN pl_statement
    /\ IsCategorized(pl_statement) =>
          /\ \A i \in 1..Len(revenue_lines) :
                DocLines(invoices_or_df.v)[i].Amount \in {Absent, None} =>
                    revenue_lines[i].Amount = float(0)
          /\ \A i \in 1..Len(expense_lines) :
                DocLines(bills_or_df.v)[i].Amount \in {Absent, None} =>
                    expense_lines[i].Amount = float(0)

\* The sum of the Amount fields of the first n categorized lines, added up
\* in their order
RECURSIVE SumOfFirstLineAmounts(_, _)
SumOfFirstLineAmounts(lines, n) ==
    IF n = 0 THEN float(0)
    ELSE FloatAdd(SumOfFirstLineAmounts(lines, n - 1), lines[n].Amount)
SumOfLineAmounts(lines) == SumOfFirstLineAmounts(lines, Len(lines))

\* C13: in the categorized P&L, Total Revenue is the sum of the revenue line
\* amounts, Total Expenses the sum of the expense line amounts (each sum
\* taken in the order of the lines), and Gross Profit and Net Income are both
\* Total Revenue - Total Expenses.
C13_PLTotals ==
    IsCategorized(pl_statement) =>
        /\ pl_statement["Total Revenue"] = SumOfLineAmounts(revenue_lines)
        /\ pl_statement["Total Revenue"] = SumOfAmounts(DocLines(invoices_or_df.v))
        /\ pl_statement["Total Expenses"] = SumOfLineAmounts(expense_lines)
        /\ pl_statement["Total Expenses"] = SumOfAmounts(DocLines(bills_or_df.v))
        /\ pl_statement["Gross Profit"] =
              FloatSub(pl_statement["Total Revenue"], pl_statement["Total Expenses"])
        /\ pl_statement["Net Income"] =
              FloatSub(pl_statement["Total Revenue"], pl_statement["Total Expenses"])

\* A P&L has been returned
IsStatement(pl) == "Net Income" \in DOMAIN pl

\* C14: from DataFrames of totals the P&L carries exactly Total Revenue,
\* Total Expenses and Net Income = Total Revenue - Total Expenses, the sums
\* of the TotalAmt columns; and a P&L has the revenue_detail and
\* expense_detail maps exactly when it was built from lists of documents,
\* empty inputs included.
C14_FlatShapeDistinguishable ==
    IsStatement(pl_statement) =>
        /\ ("revenue_detail" \in DOMAIN pl_statement) <=> (invoices_or_df.tag = "list")
        /\ ("expense_detail" \in DOMAIN pl_statement) <=> (invoices_or_df.tag = "list")
        /\ invoices_or_df.tag = "DataFrame" =>
              /\ DOMAIN pl_statement = {"Total Revenue", "Total Expenses", "Net Income"}
              /\ pl_statement["Total Revenue"] = SeqSum(invoices_or_df.TotalAmt)
              /\ pl_statement["Total Expenses"] = SeqSum(bills_or_df.TotalAmt)
              /\ pl_statement["Net Income"] =
                    pl_statement["Total Revenue"] - pl_statement["Total Expenses"]

\* The flat shape from empty DataFrames
C14_Witness ==
    /\ invoices_or_df = DataFrame(<<>>)
    /\ bills_or_df = DataFrame(<<>>)
    /\ IsStatement(pl_statement)
    /\ ~IsCategorized(pl_statement)
    /\ pl_statement["Net Income"] = 0

\* C15: from an empty list of invoices and an empty list of bills the P&L is
\* returned, with Net Income, Total Revenue and Total Expenses 0 and empty
\* revenue and expense maps.
C15_EmptyInputs ==
    (/\ invoices_or_df = PyList(<<>>)
     /\ bills_or_df = PyList(<<>>)
     /\ pl_statement # None) =>
        /\ IsCategorized(pl_statement)
        /\ pl_statement["Net Income"] = float(0)
        /\ pl_statement["Total Revenue"] = float(0)
        /\ pl_statement["Total Expenses"] = float(0)
        /\ pl_statement["revenue_detail"] = <<>>
        /\ pl_statement["expense_detail"] = <<>>

C15_Witness ==
    /\ invoices_or_df = PyList(<<>>)
    /\ bills_or_df = PyList(<<>>)
    /\ IsStatement(pl_statement)
    /\ pl_statement["Net Income"] = float(0)
    /\ pl_statement["revenue_detail"] = <<>>

----------------------------------------------------------------------------
(* Claims about the balance sheet *)

\* The sum of the values of a map
RECURSIVE DictSum(_)
DictSum(d) == IF d = <<>> THEN 0 ELSE Head(d).value + DictSum(Tail(d))

\* The section the declared types of the claim belong to
SectionOf(acc_type) ==
    IF acc_type \in {Str("Bank"), Str("Accounts Receivable")} THEN "Assets"
    ELSE IF acc_type = Str("Accounts Payable") THEN "Liabilities"
    ELSE IF acc_type = Str("Equity") THEN "Equity"
    ELSE "none"

AccountBalance(acc) ==
    IF acc.CurrentBalance.tag = "num" THEN acc.CurrentBalance.v ELSE 0

RECURSIVE SumOfBalances(_)
SumOfBalances(accs) ==
    IF accs = <<>> THEN 0
    ELSE AccountBalance(Head(accs)) + SumOfBalances(Tail(accs))

RECURSIVE SectionSum(_, _)
SectionSum(accs, section) ==
    IF accs = <<>> THEN 0
    ELSE (IF SectionOf(Head(accs).AccountType) = section
          THEN AccountBalance(Head(accs)) ELSE 0)
         + SectionSum(Tail(accs), section)

\* C16: for accounts that all carry a declared type the balance sheet has
\* rows and section_totals, and the total of each section is the sum of the
\* balances of the accounts whose type maps to it (Bank and Accounts
\* Receivable to Assets, Accounts Payable to Liabilities, Equity to Equity).
C16_GroupedBalanceSheet ==
    (/\ balance_data # None
     /\ Len(accounts.v) > 0
     /\ \A i \in 1..Len(accounts.v) :
           SectionOf(accounts.v[i].AccountType) # "none") =>
        /\ Str("rows") \in DictKeys(balance_data.v)
        /\ Str("section_totals") \in DictKeys(balance_data.v)
        /\ \A section \in {"Assets", "Liabilities", "Equity"} :
              DictGet(DictGet(balance_data.v, Str("section_totals"), <<>>),
                      Str(section), 0)
                 = SectionSum(accounts.v, section)

\* What the balance sheet reports in total: its section totals, or the
\* balances it lists when it has none
ReportedTotal(data) ==
    IF Str("section_totals") \in DictKeys(data)
    THEN DictSum(DictGet(data, Str("section_totals"), <<>>))
    ELSE DictSum(data)

\* C17: no account is dropped from the balance sheet, whatever its type:
\* what the balance sheet reports adds up to the sum of the balances of all
\* accounts.
C17_NoAccountDropped ==
    balance_data # None =>
        ReportedTotal(balance_data.v) = SumOfBalances(accounts.v)

----------------------------------------------------------------------------
(* Claims about the cash flow statement *)

\* C18: in every cash flow statement the engine produces from net income
\* and the three category maps, net_operating, net_investing and
\* net_financing are each the sum of the deltas of their own map, and
\* net_change_in_cash is the sum of the three.
C18_NetsAreMapSums ==
    cash_flow # None =>
        /\ cash_flow.operating = cf_input.operating
        /\ cash_flow.investing = cf_input.investing
        /\ cash_flow.financing = cf_input.financing
        /\ cash_flow.net_operating = DictSum(cash_flow.operating)
        /\ cash_flow.net_investing = DictSum(cash_flow.investing)
        /\ cash_flow.net_financing = DictSum(cash_flow.financing)
        /\ cash_flow.net_change_in_cash =
              cash_flow.net_operating + cash_flow.net_investing
                 + cash_flow.net_financing

\* The maps of TestCFExport._sample_cf with its net income of 10000: the
\* operating deltas -3000 and 2000 give -1000, and the net change is 14000.
C18_Witness ==
    /\ cash_flow # None
    /\ cash_flow.net_income = 10000
    /\ cash_flow.operating =
          <<Item("Accounts Receivable", -3000), Item("Accounts Payable", 2000)>>
    /\ cash_flow.investing = <<Item("Fixed Assets", -5000)>>
    /\ cash_flow.financing = <<Item("Equity", 20000)>>
    /\ cash_flow.net_operating = -1000
    /\ cash_flow.net_investing = -5000
    /\ cash_flow.net_financing = 20000
    /\ cash_flow.net_change_in_cash = 14000

----------------------------------------------------------------------------
(* Claims about the run *)

RunEnded == main_pc \in {"done", "aborted"}

\* The run printed the outcome of a statement: a success, or a failure with
\* the class of its error
Reported(statement) ==
    \E i \in 1..Len(printed) :
        /\ printed[i].about \in {statement \o " report saved", statement \o " failed"}
        /\ printed[i].level = "ERROR" => printed[i].exc # ""

\* C19: a failure while building one statement does not abort the run: when
\* the run has ended and building the P&L has failed, the balance sheet has
\* still been built and exported, and the run has reported the outcome of
\* each statement, the failed one with its error class.
C19_StatementFailureDoesNotAbort ==
    (/\ RunEnded
     /\ accounts # None
     /\ pl_statement = None
     /\ uncaught # None) =>
        /\ balance_data # None
        /\ \E i \in 1..Len(exported) : exported[i] = "Balance Sheet"
        /\ Reported("Balance Sheet")
        /\ \E i \in 1..Len(printed) :
              /\ printed[i].level = "ERROR"
              /\ printed[i].about = "P&L failed"
              /\ printed[i].exc = uncaught.exc

----------------------------------------------------------------------------
(* Claims about cancellation *)

\* C20: a fetch in progress honours an external cancellation signal: once
\* the signal is raised, between two page requests or between two retries,
\* no further request is sent to the source.
C20_CancelledFetchStops ==
    [][cancel_requested => requests' = requests]_vars

----------------------------------------------------------------------------
(* Further claims about the fetch layer *)

\* C21 as stated: the delay slept after the failed attempt with zero-based
\* index a lies in [2^a, 2^a + 1), so its whole part is 2^a; each delay is
\* strictly greater than the one before, and one _retry_call sleeps less
\* than 19 time units in total.
C21_DelaysInHalfOpenRange ==
    /\ \A i \in 1..Len(sleeps) :
          /\ sleeps[i] = Pow2(i - 1)
          /\ i > 1 => sleeps[i] > sleeps[i - 1]
    /\ SeqSum(sleeps) < 19

\* C21 amended: there are at most 4 delays; the delay after the failed
\* attempt with index a lies in [2^a, 2^a + 1], both ends included; each
\* delay is at least the one before, and strictly greater except for a first
\* delay of 2 followed by a second delay of 2; one _retry_call sleeps at most
\* 19 time units in total.
C21_BackoffDelays ==
    /\ Len(sleeps) <= 4
    /\ \A i \in 1..Len(sleeps) :
          /\ sleeps[i] >= Pow2(i - 1)
          /\ sleeps[i] <= Pow2(i - 1) + 1
          /\ i > 1 => \/ sleeps[i] > sleeps[i - 1]
                      \/ /\ i = 2
                         /\ sleeps[1] = 2
                         /\ sleeps[2] = 2
    /\ SeqSum(sleeps) <= 19

\* Four sleeps of 2, 2, 5 and 9 time units
C21_Witness ==
    sleeps = <<2, 2, 5, 9>>

----------------------------------------------------------------------------
(* Claims about the P&L report rows *)

NotSpacer(row) == row.style # "spacer"

\* The row of one entry of a category map: its label carries the category
CategoryRow(row, item) ==
    /\ row.style = "detail"
    /\ row.label = "  " \o (IF item.key.tag = "str" THEN item.key.v ELSE "None")
    /\ row.amount = Num(item.value)

TitledRow(row, label, style) == row.label = label /\ row.style = style

\* C22: for both P&L shapes the rows _build_pl_rows returns hold exactly one
\* "Net Income" row, of kind total, and it is the last row; in the
\* categorized shape the rows before it (spacers aside) are, in order, the
\* Revenue section with one detail row per revenue category in the map's
\* order, Total Revenue, the Expenses section with one detail row per
\* expense category in the map's order, Total Expenses and Gross Profit.
C22_NetIncomeRowLast ==
    rows # None =>
        LET r == rows.v
            f == SelectSeq(r, NotSpacer)
        IN  /\ Len(r) > 0
            /\ TitledRow(r[Len(r)], "Net Income", "total")
            /\ r[Len(r)].amount = Num(pl_statement["Net Income"])
            /\ \A i \in 1..Len(r) : r[i].label = "Net Income" => i = Len(r)
            /\ IsCategorized(pl_statement) =>
                  LET rev == pl_statement["revenue_detail"]
                      exp == pl_statement["expense_detail"]
                      a == Len(rev)
                      b == Len(exp)
                  IN  /\ Len(f) = a + b + 6
                      /\ TitledRow(f[1], "Revenue", "section")
                      /\ \A i \in 1..a : CategoryRow(f[1 + i], rev[i])
                      /\ TitledRow(f[a + 2], "Total Revenue", "subtotal")
                      /\ f[a + 2].amount = Num(pl_statement["Total Revenue"])
                      /\ TitledRow(f[a + 3], "Expenses", "section")
                      /\ \A i \in 1..b : CategoryRow(f[a + 3 + i], exp[i])
                      /\ TitledRow(f[a + b + 4], "Total Expenses", "subtotal")
                      /\ f[a + b + 4].amount = Num(pl_statement["Total Expenses"])
                      /\ TitledRow(f[a + b + 5], "Gross Profit", "subtotal")
                      /\ f[a + b + 5].amount = Num(pl_statement["Gross Profit"])
            /\ ~IsCategorized(pl_statement) =>
                  /\ Len(f) = 3
                  /\ f[1].label = "Total Revenue"
                  /\ f[2].label = "Total Expenses"

\* The rows of the statement of test_categorized_revenue_and_expenses
C22_Witness ==
    /\ rows # None
    /\ invoices_or_df = PyList(ScenarioInvoices)
    /\ bills_or_df = PyList(ScenarioBills)
    /\ Len(rows.v) > 10
    /\ rows.v[Len(rows.v)].amount = Num(float(5500))

----------------------------------------------------------------------------
(* Further claims about the fetch layer: outcomes *)

\* C23: when a page request fails for good (an authorization error, or a
\* transient error on all 5 attempts), also after pages were fetched,
\* _paginate raises that error and returns nothing; a fetch that returns,
\* returns the complete record sequence: never a partial one.
C23_NoPartialFetch ==
    /\ pc = "raised" =>
          /\ result = None
          /\ raised.kind = Last(calls)
          /\ \/ ~IsQuickbooksException(raised.kind)
             \/ IsAuthorizationException(raised.kind)
             \/ Len(calls) = 5
    /\ result # None =>
          /\ pc = "done"
          /\ raised = None
          /\ result = PyList(Records(source_size))

\* The third page fails on all 5 attempts after two pages were fetched
C23_Witness ==
    /\ pc = "raised"
    /\ Len(all_records) = 200
    /\ start = 201
    /\ calls = <<"server", "server", "server", "server", "server">>
    /\ result = None

----------------------------------------------------------------------------
(* Further claims about the fetch layer: the attempt counter *)

\* The pages the fetch has asked for so far
PagesRequested == Cardinality(StartsUpTo(Len(requests)))

Transient(k) == IsQuickbooksException(k) /\ ~IsAuthorizationException(k)

\* C24: the attempt counter is fresh for every page request: it counts only
\* the failed attempts of the page being requested, so a page request is
\* given up on a transient error only after its own 5 attempts, whatever
\* happened on earlier pages; a fetch that has asked for p pages has made at
\* most 5 * p requests and slept at most 4 * p times.
C24_FreshAttemptCounter ==
    /\ Len(calls) <= 5
    /\ Len(sleeps) <= 4
    /\ pc = "call" => attempt = Len(calls) /\ attempt <= 4
    /\ (pc = "raised" /\ Transient(raised.kind)) =>
          /\ Len(calls) = 5
          /\ \A i \in 1..5 : Transient(calls[i])
    /\ Len(requests) <= 5 * PagesRequested
    /\ slept <= 4 * PagesRequested

\* Two pages, each fetched on its fifth attempt
C24_Witness ==
    /\ pc = "done"
    /\ source_size = 150
    /\ PagesRequested = 2
    /\ Len(requests) = 10
    /\ slept = 8
    /\ result = PyList(Records(150))

====
